---- MODULE Spec2Model ----
(***************************************************************************)
(* Vintage ingestion, panel consolidation and revision metrics of the ONS  *)
(* vacancy forecasting project (src/src/prepare.py, src/src/revisions.py,  *)
(* src/src/forecast.py).                                                   *)
(*                                                                         *)
(* Text is modelled as a sequence of tokens: a run of decimal digits       *)
(* (Num), a run of letters (Word), a run of whitespace (SP) or a single    *)
(* punctuation character (Sym).  A line is the list of fields produced by  *)
(* line.split(",", 1): one field when the line has no comma, two fields    *)
(* otherwise.  Floating-point values are kept in tenths (800.0 is 8000),   *)
(* with a separate NaN.                                                    *)
(***************************************************************************)
EXTENDS Integers, Sequences, FiniteSets, TLC

VARIABLES docs, pc, panel, out_csv, df, rev, series, reading

vars == <<docs, pc, panel, out_csv, df, rev, series, reading>>

\* Most lines, over all the documents of raw_dir together, that follow the
\* documents' header lines.
MaxRows == 3

\* Most lines of a document that is read on its own.
MaxLines == 3

-----------------------------------------------------------------------------
(* Tokens *)

Num(n) == [k |-> "num", s |-> "", n |-> n]
Word(s) == [k |-> "word", s |-> s, n |-> 0]
Sym(s) == [k |-> "sym", s |-> s, n |-> 0]
SP == [k |-> "sp", s |-> " ", n |-> 0]
DASH == Sym("-")
DOT == Sym(".")
QUOTE == Sym("\"")

\* \d{4}: a run of exactly four digits (leading zeros are not modelled).
Digits4(t) == t.k = "num" /\ t.n >= 1000 /\ t.n <= 9999

\* str.strip(): drop leading and trailing whitespace.
RECURSIVE lstrip(_)
lstrip(s) == IF s # <<>> /\ Head(s) = SP THEN lstrip(Tail(s)) ELSE s

RECURSIVE rstrip(_)
rstrip(s) ==
    IF s # <<>> /\ s[Len(s)] = SP THEN rstrip(SubSeq(s, 1, Len(s) - 1)) ELSE s

strip(s) == rstrip(lstrip(s))

\* uq (prepare.py): strip, then drop one pair of surrounding double quotes.
uq(s0) ==
    LET s == strip(s0)
    IN  IF Len(s) >= 2 /\ s[1] = QUOTE /\ s[Len(s)] = QUOTE
        THEN SubSeq(s, 2, Len(s) - 1)
        ELSE s

\* The header loop's parts = [p.strip() for p in line.split(",", 1)].
StripParts(line) == [i \in 1..Len(line) |-> strip(line[i])]

\* The data loop's parts = [uq(p) for p in ln.split(",", 1)].
UqParts(line) == [i \in 1..Len(line) |-> uq(line[i])]

\* line.strip() == "": a line without a comma holding only whitespace.
IsBlank(line) == Len(line) = 1 /\ strip(line[1]) = <<>>

\* ts_key = ^\d{4}(?:\s+Q[1-4]|\s+M\d{2})?$
QuarterWords == {"Q1", "Q2", "Q3", "Q4"}
MonthCodeWords == {"M01", "M02", "M03", "M04", "M05", "M06",
                   "M07", "M08", "M09", "M10", "M11", "M12"}

ts_key(key) ==
    \/ Len(key) = 1 /\ Digits4(key[1])
    \/ /\ Len(key) = 3
       /\ Digits4(key[1])
       /\ key[2] = SP
       /\ key[3].k = "word"
       /\ key[3].s \in QuarterWords \cup MonthCodeWords

\* key.lower().startswith("important notes")
ImportantNotesWords == {"Important notes", "IMPORTANT NOTES", "important notes"}

IsImportantNotes(key) ==
    key # <<>> /\ key[1].k = "word" /\ key[1].s \in ImportantNotesWords

MONTH_MAP ==
    ("JAN" :> 1) @@ ("FEB" :> 2) @@ ("MAR" :> 3) @@ ("APR" :> 4) @@
    ("MAY" :> 5) @@ ("JUN" :> 6) @@ ("JUL" :> 7) @@ ("AUG" :> 8) @@
    ("SEP" :> 9) @@ ("OCT" :> 10) @@ ("NOV" :> 11) @@ ("DEC" :> 12)

\* Words of three upper-case letters that occur in the modelled text.
Upper3Words == DOMAIN MONTH_MAP \cup {"QTR"}

\* ^\d{4}\s+[A-Z]{3}$
MonthlyLabel(key) ==
    /\ Len(key) = 3
    /\ Digits4(key[1])
    /\ key[2] = SP
    /\ key[3].k = "word"
    /\ key[3].s \in Upper3Words

\* mon_s.upper(); a label that passed MonthlyLabel is upper case already.
upper(s) ==
    CASE s = "jun" -> "JUN"
      [] s = "Jun" -> "JUN"
      [] OTHER -> s

-----------------------------------------------------------------------------
(* Floating-point values, in tenths *)

NaN == [nan |-> TRUE, x |-> 0]
Flt(x) == [nan |-> FALSE, x |-> x]

NanWords == {"nan", "NaN", "NAN"}

\* float(value) succeeds: optional surrounding whitespace, then a decimal
\* with at most one fractional digit, or a spelling of nan.
IsFloat(value) ==
    LET v == strip(value)
    IN  \/ Len(v) = 1 /\ v[1].k = "num"
        \/ Len(v) = 3 /\ v[1].k = "num" /\ v[2] = DOT
                      /\ v[3].k = "num" /\ v[3].n <= 9
        \/ Len(v) = 1 /\ v[1].k = "word" /\ v[1].s \in NanWords

float(value) ==
    LET v == strip(value)
    IN  IF v[1].k = "word" THEN NaN
        ELSE IF Len(v) = 1 THEN Flt(10 * v[1].n)
        ELSE Flt(10 * v[1].n + v[3].n)

-----------------------------------------------------------------------------
(* Dates *)

Date(y, m, d) == [y |-> y, m |-> m, d |-> d]

\* None / NaT
NoDate == [y |-> 0, m |-> 0, d |-> 0]

DateLess(a, b) ==
    \/ a.y < b.y
    \/ a.y = b.y /\ a.m < b.m
    \/ a.y = b.y /\ a.m = b.m /\ a.d < b.d

DateLeq(a, b) == a = b \/ DateLess(a, b)

-----------------------------------------------------------------------------
(* datetime.strptime over the four formats of parse_vintage_date *)

FullMonths ==
    ("January" :> 1) @@ ("February" :> 2) @@ ("March" :> 3) @@
    ("April" :> 4) @@ ("May" :> 5) @@ ("June" :> 6) @@ ("July" :> 7) @@
    ("August" :> 8) @@ ("September" :> 9) @@ ("October" :> 10) @@
    ("November" :> 11) @@ ("December" :> 12)

AbbrMonths ==
    ("Jan" :> 1) @@ ("Feb" :> 2) @@ ("Mar" :> 3) @@ ("Apr" :> 4) @@
    ("May" :> 5) @@ ("Jun" :> 6) @@ ("Jul" :> 7) @@ ("Aug" :> 8) @@
    ("Sep" :> 9) @@ ("Oct" :> 10) @@ ("Nov" :> 11) @@ ("Dec" :> 12)

IsLeap(y) == y % 4 = 0 /\ (y % 100 # 0 \/ y % 400 = 0)

DaysIn(y, m) ==
    IF m = 2 THEN (IF IsLeap(y) THEN 29 ELSE 28)
    ELSE IF m \in {4, 6, 9, 11} THEN 30 ELSE 31

\* datetime(y, m, d) is constructed without ValueError.
ValidDate(y, m, d) ==
    y >= 1 /\ y <= 9999 /\ m >= 1 /\ m <= 12 /\ d >= 1 /\ d <= DaysIn(y, m)

Checked(y, m, d) == IF ValidDate(y, m, d) THEN Date(y, m, d) ELSE NoDate

\* %d %B %Y and %d %b %Y
NamedMonth(val, names) ==
    IF /\ Len(val) = 5
       /\ val[1].k = "num" /\ val[1].n >= 1 /\ val[1].n <= 31
       /\ val[2] = SP
       /\ val[3].k = "word" /\ val[3].s \in DOMAIN names
       /\ val[4] = SP
       /\ Digits4(val[5])
    THEN Checked(val[5].n, names[val[3].s], val[1].n)
    ELSE NoDate

\* %Y-%m-%d (yi = 1, di = 5) and %d-%m-%Y (yi = 5, di = 1)
Dashed(val, yi, di) ==
    IF /\ Len(val) = 5
       /\ Digits4(val[yi])
       /\ val[2] = DASH
       /\ val[3].k = "num" /\ val[3].n >= 1 /\ val[3].n <= 12
       /\ val[4] = DASH
       /\ val[di].k = "num" /\ val[di].n >= 1 /\ val[di].n <= 31
    THEN Checked(val[yi].n, val[3].n, val[di].n)
    ELSE NoDate

fmts == <<"%d %B %Y", "%d %b %Y", "%Y-%m-%d", "%d-%m-%Y">>

\* strptime(val, fmt); NoDate stands for the ValueError.
strptime(val, fmt) ==
    CASE fmt = "%d %B %Y" -> NamedMonth(val, FullMonths)
      [] fmt = "%d %b %Y" -> NamedMonth(val, AbbrMonths)
      [] fmt = "%Y-%m-%d" -> Dashed(val, 1, 5)
      [] fmt = "%d-%m-%Y" -> Dashed(val, 5, 1)

candidates ==
    << <<Word("Release date")>>, <<Word("Last updated")>>, <<Word("Date")>> >>

\* The inner loop: the first format that parses val, from format i on.
RECURSIVE TryFmts(_, _)
TryFmts(val, i) ==
    IF i > Len(fmts) THEN NoDate
    ELSE LET parsed == strptime(val, fmts[i])
         IN  IF parsed # NoDate THEN parsed ELSE TryFmts(val, i + 1)

\* Variant: the first key with a non-empty value decides alone.
RECURSIVE TryKeys_StopAtFirst(_, _)
TryKeys_StopAtFirst(metadata, c) ==
    IF c > Len(candidates) THEN NoDate
    ELSE IF candidates[c] \notin DOMAIN metadata
    THEN TryKeys_StopAtFirst(metadata, c + 1)
    ELSE IF metadata[candidates[c]] = <<>>
    THEN TryKeys_StopAtFirst(metadata, c + 1)
    ELSE TryFmts(metadata[candidates[c]], 1)

\* The outer loop, from candidate c on: a key that is missing or empty is
\* passed over, and so is a key none of whose formats parses.
RECURSIVE TryKeys(_, _)
TryKeys(metadata, c) ==
    IF c > Len(candidates) THEN NoDate
    ELSE IF candidates[c] \notin DOMAIN metadata THEN TryKeys(metadata, c + 1)
    ELSE IF metadata[candidates[c]] = <<>> THEN TryKeys(metadata, c + 1)
    ELSE LET parsed == TryFmts(metadata[candidates[c]], 1)
         IN  IF parsed # NoDate THEN parsed ELSE TryKeys(metadata, c + 1)

parse_vintage_date(metadata) == TryKeys(metadata, 1)

-----------------------------------------------------------------------------
(* read_csv_with_header_metadata *)

\* metadata[key] = val
Put(metadata, key, val) ==
    [k \in DOMAIN metadata \cup {key} |-> IF k = key THEN val ELSE metadata[k]]

\* The header loop from line idx (0-based) on; when the loop runs off the end
\* without a break, data_start keeps its initial 0.
RECURSIVE ScanHeader(_, _, _)
ScanHeader(lines, idx, metadata) ==
    IF idx >= Len(lines) THEN [metadata |-> metadata, data_start |-> 0]
    ELSE LET line == lines[idx + 1]
             parts == StripParts(line)
         IN  IF IsBlank(line)
             THEN [metadata |-> metadata, data_start |-> idx + 1]
             ELSE IF Len(parts) = 2
             THEN LET key == uq(parts[1])
                      val == uq(parts[2])
                  IN  IF ts_key(key)
                      THEN [metadata |-> metadata, data_start |-> idx]
                      ELSE IF IsImportantNotes(key)
                      THEN [metadata |-> Put(metadata, key, val),
                            data_start |-> idx + 1]
                      ELSE ScanHeader(lines, idx + 1, Put(metadata, key, val))
             ELSE [metadata |-> metadata, data_start |-> idx]

\* The lines (numbered from 1) at which the header loop, from line idx
\* (0-based) on, executes metadata[key] = val.
RECURSIVE MetadataLines(_, _)
MetadataLines(lines, idx) ==
    IF idx >= Len(lines) THEN {}
    ELSE LET line == lines[idx + 1]
             parts == StripParts(line)
         IN  IF IsBlank(line) \/ Len(parts) # 2 THEN {}
             ELSE IF ts_key(uq(parts[1])) THEN {}
             ELSE IF IsImportantNotes(uq(parts[1])) THEN {idx + 1}
             ELSE {idx + 1} \cup MetadataLines(lines, idx + 1)

\* lines[data_start:]
DataLines(lines, data_start) == SubSeq(lines, data_start + 1, Len(lines))

\* The body of the data loop for one line: does it append a record?
KeepsRow(ln) ==
    /\ ~IsBlank(ln)
    /\ Len(ln) = 2
    /\ MonthlyLabel(UqParts(ln)[1])
    /\ upper(UqParts(ln)[1][3].s) \in DOMAIN MONTH_MAP
    /\ IsFloat(UqParts(ln)[2])

RowRecord(ln) ==
    LET key == UqParts(ln)[1]
    IN  [observation_date |-> Date(key[1].n, MONTH_MAP[upper(key[3].s)], 1),
         value |-> float(UqParts(ln)[2])]

RECURSIVE Records(_)
Records(data_lines) ==
    IF data_lines = <<>> THEN <<>>
    ELSE IF KeepsRow(Head(data_lines))
    THEN <<RowRecord(Head(data_lines))>> \o Records(Tail(data_lines))
    ELSE Records(Tail(data_lines))

read_csv_with_header_metadata(lines) ==
    LET h == ScanHeader(lines, 0, <<>>)
    IN  [metadata |-> h.metadata,
         df |-> Records(DataLines(lines, h.data_start))]

-----------------------------------------------------------------------------
(* consolidate_monthlies *)

\* The files of raw_dir matching ap2y_*.csv, listed in lexicographic order.
FileNames == <<"ap2y_1.csv", "ap2y_2.csv">>

Files == {FileNames[i] : i \in 1..Len(FileNames)}

PathRank(p) == CHOOSE i \in 1..Len(FileNames) : FileNames[i] = p

\* The orders in which glob may yield the files.
GlobOrders ==
    {o \in [1..Len(FileNames) -> Files] :
        \A i, j \in 1..Len(FileNames) : i # j => o[i] # o[j]}

\* Variant: the glob order is used as it comes.
sorted_GlobOrder(paths) == paths

RECURSIVE InsertPath(_, _)
InsertPath(p, s) ==
    IF s = <<>> THEN <<p>>
    ELSE IF PathRank(p) < PathRank(Head(s)) THEN <<p>> \o s
    ELSE <<Head(s)>> \o InsertPath(p, Tail(s))

\* sorted(Path(raw_dir).glob("ap2y_*.csv"))
RECURSIVE sorted(_)
sorted(paths) ==
    IF paths = <<>> THEN <<>>
    ELSE InsertPath(paths[Len(paths)], sorted(SubSeq(paths, 1, Len(paths) - 1)))

\* df["vintage_date"] = vintage; df["source_file"] = p.name
Frame(lines, p) ==
    LET r == read_csv_with_header_metadata(lines)
        vintage == parse_vintage_date(r.metadata)
    IN  [i \in 1..Len(r.df) |->
            [observation_date |-> r.df[i].observation_date,
             value |-> r.df[i].value,
             vintage_date |-> vintage,
             source_file |-> p]]

\* The loop over raw_paths: the frames list, documents with an empty
\* extraction left out.
RECURSIVE Frames(_, _)
Frames(D, raw_paths) ==
    IF raw_paths = <<>> THEN <<>>
    ELSE LET frame == Frame(D[Head(raw_paths)], Head(raw_paths))
         IN  IF frame = <<>> THEN Frames(D, Tail(raw_paths))
             ELSE <<frame>> \o Frames(D, Tail(raw_paths))

\* pd.concat(frames, ignore_index=True)
RECURSIVE concat(_)
concat(frames) ==
    IF frames = <<>> THEN <<>> ELSE Head(frames) \o concat(Tail(frames))

HasVintage(r) == r.vintage_date # NoDate

\* Variant: rows without a vintage date are kept.
dropna_KeepAll(rows) == rows

\* dropna(subset=["vintage_date"])
dropna(rows) == SelectSeq(rows, HasVintage)

\* Variant: the sort uses observation_date alone.
KeyLess_ObsOnly(a, b) == DateLess(a.observation_date, b.observation_date)

\* Row ordering of sort_values(["observation_date", "vintage_date"]).
KeyLess(a, b) ==
    \/ DateLess(a.observation_date, b.observation_date)
    \/ /\ a.observation_date = b.observation_date
       /\ DateLess(a.vintage_date, b.vintage_date)

RECURSIVE InsertRow(_, _)
InsertRow(x, s) ==
    IF s = <<>> THEN <<x>>
    ELSE IF KeyLess(x, Head(s)) THEN <<x>> \o s
    ELSE <<Head(s)>> \o InsertRow(x, Tail(s))

\* A sort on several columns is a lexsort, which is stable: rows with equal
\* keys keep their order.
RECURSIVE sort_values(_)
sort_values(rows) ==
    IF rows = <<>> THEN <<>>
    ELSE InsertRow(rows[Len(rows)],
                   sort_values(SubSeq(rows, 1, Len(rows) - 1)))

\* ok = FALSE is the RuntimeError("No monthly data found to consolidate.").
consolidate_monthlies(D, glob) ==
    LET frames == Frames(D, sorted(glob))
    IN  IF frames = <<>> THEN [ok |-> FALSE, combined |-> <<>>]
        ELSE [ok |-> TRUE, combined |-> sort_values(dropna(concat(frames)))]

-----------------------------------------------------------------------------
(* The flat table: DataFrame.to_csv and pd.read_csv *)

FormatDate(d) == <<Num(d.y), DASH, Num(d.m), DASH, Num(d.d)>>

\* A NaN is written as an empty field.
FormatFloat(v) ==
    IF v.nan THEN <<>> ELSE <<Num(v.x \div 10), DOT, Num(v.x % 10)>>

to_csv(rows) ==
    [i \in 1..Len(rows) |->
        [observation_date |-> FormatDate(rows[i].observation_date),
         value |-> FormatFloat(rows[i].value),
         vintage_date |-> FormatDate(rows[i].vintage_date),
         source_file |-> rows[i].source_file]]

\* read_csv turns an empty field into NaN.
ReadFloat(field) ==
    IF field = <<>> THEN NaN
    ELSE IF IsFloat(field) THEN float(field)
    ELSE NaN

\* pd.to_datetime(..., errors="coerce")
to_datetime(field) == Dashed(field, 1, 5)

read_csv(table) ==
    [i \in 1..Len(table) |->
        [observation_date |-> to_datetime(table[i].observation_date),
         value |-> ReadFloat(table[i].value),
         vintage_date |-> to_datetime(table[i].vintage_date),
         source_file |-> table[i].source_file]]

Complete(r) ==
    r.observation_date # NoDate /\ r.vintage_date # NoDate /\ ~r.value.nan

\* load_panel (revisions.py)
load_panel(table) == SelectSeq(read_csv(table), Complete)

-----------------------------------------------------------------------------
(* add_revision_metrics *)

\* Variant: idxmax in place of idxmin.
idx_first_Max(d, obs) ==
    CHOOSE i \in 1..Len(d) :
        /\ d[i].observation_date = obs
        /\ \A j \in 1..Len(d) :
              d[j].observation_date = obs =>
                  /\ DateLeq(d[j].vintage_date, d[i].vintage_date)
                  /\ (j < i => d[j].vintage_date # d[i].vintage_date)

\* df.groupby("observation_date")["vintage_date"].idxmin(): the first row of
\* the group that carries the group's minimum vintage_date.
idx_first(d, obs) ==
    CHOOSE i \in 1..Len(d) :
        /\ d[i].observation_date = obs
        /\ \A j \in 1..Len(d) :
              d[j].observation_date = obs =>
                  /\ DateLeq(d[i].vintage_date, d[j].vintage_date)
                  /\ (j < i => d[j].vintage_date # d[i].vintage_date)

first_value(d, obs) == d[idx_first(d, obs)].value

\* (vint_period - obs_period).n on monthly periods
MonthOrdinal(date) == 12 * date.y + date.m

\* Variant: the publication month itself is not counted.
vintage_age_months_Elapsed(r) ==
    MonthOrdinal(r.vintage_date) - MonthOrdinal(r.observation_date) - 1

vintage_age_months(r) ==
    MonthOrdinal(r.vintage_date) - MonthOrdinal(r.observation_date)

WithMetrics(d, r) ==
    [observation_date |-> r.observation_date,
     value |-> r.value,
     vintage_date |-> r.vintage_date,
     source_file |-> r.source_file,
     first_value |-> first_value(d, r.observation_date),
     rev_from_first |->
         Flt(r.value.x - first_value(d, r.observation_date).x),
     vintage_age_months |-> vintage_age_months(r)]

\* Variant: age 0 is dropped as well.
NonNegativeAge_Strict(r) == r.vintage_age_months > 0

NonNegativeAge(r) == r.vintage_age_months >= 0

add_revision_metrics(d) ==
    SelectSeq([i \in 1..Len(d) |-> WithMetrics(d, d[i])], NonNegativeAge)

-----------------------------------------------------------------------------
(* Input documents *)

Line(key, val) == <<key, val>>

BlankLine == << <<>> >>

\* "Release date","1 July 2022"
HRelJul ==
    Line(<<QUOTE, Word("Release date"), QUOTE>>,
         <<QUOTE, Num(1), SP, Word("July"), SP, Num(2022), QUOTE>>)

\* Release date,2022-09-01
HRelSep ==
    Line(<<Word("Release date")>>, <<Num(2022), DASH, Num(9), DASH, Num(1)>>)

\* Last updated,15-05-2022
HUpdMay ==
    Line(<<Word("Last updated")>>, <<Num(15), DASH, Num(5), DASH, Num(2022)>>)

\* Release date,TBC
HRelBad == Line(<<Word("Release date")>>, <<Word("TBC")>>)

\* Important notes,see footnotes
HNotes == Line(<<Word("Important notes")>>, <<Word("see footnotes")>>)

Month(y, mon, val) == Line(<<Num(y), SP, Word(mon)>>, val)

Headers ==
    { <<>>,
      <<HRelJul, BlankLine>>,
      <<HRelSep>>,
      <<HRelBad, HUpdMay, HNotes>>,
      <<HRelBad, BlankLine>> }

Rows ==
    { Month(2022, "JUN", <<Num(800), DOT, Num(0)>>),
      Month(2022, "JUN", <<Num(795), DOT, Num(0)>>),
      Month(2022, "JUL", <<Num(810), DOT, Num(5)>>),
      Month(2022, "MAY", <<Word("nan")>>),
      BlankLine }

\* The documents made of a header and n further lines.
DocsOf(n) == {h \o b : h \in Headers, b \in [1..n -> Rows]}

-----------------------------------------------------------------------------
(* The pipeline: prepare.main, then revisions.main *)

NoFile == [exists |-> FALSE, rows |-> <<>>]

\* Nothing has been read yet.
NoReading ==
    [file |-> "", metadata |-> <<>>, meta_lines |-> {}, data_start |-> 0,
     df |-> <<>>, vintage |-> NoDate]

\* The state before any run, the documents apart.
Fresh ==
    /\ pc = "start"
    /\ panel = <<>>
    /\ out_csv = NoFile
    /\ df = <<>>
    /\ rev = <<>>
    /\ series = <<>>
    /\ reading = NoReading

Init ==
    /\ \E n1 \in 0..MaxRows :
          \E n2 \in 0..(MaxRows - n1) :
             \E d1 \in DocsOf(n1), d2 \in DocsOf(n2) :
                docs = (FileNames[1] :> d1) @@ (FileNames[2] :> d2)
    /\ Fresh

\* prepare.main: one run of consolidate_monthlies over raw_dir; a run may be
\* repeated over the same directory.
Consolidate ==
    /\ pc \in {"start", "consolidated"}
    /\ \E glob \in GlobOrders :
          \E r \in {consolidate_monthlies(docs, glob)} :
              IF r.ok
              THEN /\ panel' = r.combined
                   /\ out_csv' = [exists |-> TRUE, rows |-> to_csv(r.combined)]
                   /\ pc' = "consolidated"
              ELSE /\ pc' = "failed"
                   /\ UNCHANGED <<panel, out_csv>>
    /\ UNCHANGED <<docs, df, rev, series, reading>>

\* revisions.main: df = load_panel(args.input)
LoadPanel ==
    /\ pc = "consolidated"
    /\ out_csv.exists
    /\ df' = load_panel(out_csv.rows)
    /\ pc' = "loaded"
    /\ UNCHANGED <<docs, panel, out_csv, rev, series, reading>>

\* revisions.main: df = add_revision_metrics(df)
AddRevisionMetrics ==
    /\ pc = "loaded"
    /\ rev' = add_revision_metrics(df)
    /\ pc' = "metrics"
    /\ UNCHANGED <<docs, panel, out_csv, df, series, reading>>

Next == Consolidate \/ LoadPanel \/ AddRevisionMetrics

Spec == Init /\ [][Next]_vars

-----------------------------------------------------------------------------
(* load_latest_series (forecast.py) *)

\* df.groupby("observation_date")["vintage_date"].idxmax(): the first row of
\* the group that carries the group's maximum vintage_date.
idx_latest(d, obs) ==
    CHOOSE i \in 1..Len(d) :
        /\ d[i].observation_date = obs
        /\ \A j \in 1..Len(d) :
              d[j].observation_date = obs =>
                  /\ DateLeq(d[j].vintage_date, d[i].vintage_date)
                  /\ (j < i => d[j].vintage_date # d[i].vintage_date)

\* The month start with monthly ordinal n.
OrdinalDate(n) == Date((n - 1) \div 12, ((n - 1) % 12) + 1, 1)

ObsDates(d) == {d[i].observation_date : i \in 1..Len(d)}

FirstOrdinal(d) ==
    CHOOSE n \in {MonthOrdinal(o) : o \in ObsDates(d)} :
        \A o \in ObsDates(d) : n <= MonthOrdinal(o)

LastOrdinal(d) ==
    CHOOSE n \in {MonthOrdinal(o) : o \in ObsDates(d)} :
        \A o \in ObsDates(d) : n >= MonthOrdinal(o)

\* latest.set_index("observation_date")["value"].asfreq("MS"): one entry per
\* month start from the first to the last observation_date, NaN where the
\* month has no row.
asfreq(d) ==
    IF d = <<>> THEN <<>>
    ELSE [k \in 1..(LastOrdinal(d) - FirstOrdinal(d) + 1) |->
            LET date == OrdinalDate(FirstOrdinal(d) + k - 1)
            IN  [observation_date |-> date,
                 value |-> IF date \in ObsDates(d)
                           THEN d[idx_latest(d, date)].value
                           ELSE NaN]]

\* An entry of the returned series; a value is num/den tenths.
Entry(date, isnan, num, den) ==
    [observation_date |-> date, nan |-> isnan, num |-> num, den |-> den]

Known(s, k) == ~s[k].value.nan

\* The last known position before k, 0 when there is none.
PrevKnown(s, k) ==
    IF \E a \in 1..(k - 1) : Known(s, a)
    THEN CHOOSE a \in 1..(k - 1) :
            Known(s, a) /\ \A c \in (a + 1)..(k - 1) : ~Known(s, c)
    ELSE 0

\* The first known position after k, 0 when there is none.
NextKnown(s, k) ==
    IF \E b \in (k + 1)..Len(s) : Known(s, b)
    THEN CHOOSE b \in (k + 1)..Len(s) :
            Known(s, b) /\ \A c \in (k + 1)..(b - 1) : ~Known(s, c)
    ELSE 0

\* series.interpolate(limit_direction="forward"): linear between the known
\* neighbours, the last known value after them, nothing before the first.
interpolate(s) ==
    [k \in 1..Len(s) |->
        LET a == PrevKnown(s, k)
            b == NextKnown(s, k)
        IN  IF Known(s, k)
            THEN Entry(s[k].observation_date, FALSE, s[k].value.x, 1)
            ELSE IF a = 0
            THEN Entry(s[k].observation_date, TRUE, 0, 1)
            ELSE IF b = 0
            THEN Entry(s[k].observation_date, FALSE, s[a].value.x, 1)
            ELSE Entry(s[k].observation_date, FALSE,
                       s[a].value.x * (b - k) + s[b].value.x * (k - a),
                       b - a)]

load_latest_series(table) ==
    interpolate(asfreq(SelectSeq(read_csv(table), Complete)))

\* forecast.main: series = load_latest_series(args.input)
LoadLatestSeries ==
    /\ pc = "consolidated"
    /\ out_csv.exists
    /\ series' = load_latest_series(out_csv.rows)
    /\ pc' = "series"
    /\ UNCHANGED <<docs, panel, out_csv, df, rev, reading>>

\* Documents for the projection: two vintages, months with a gap between
\* them, and a month whose value is nan.
HeadersLatest == { <<HRelJul, BlankLine>>, <<HRelSep>> }

RowsLatest ==
    { Month(2022, "MAR", <<Num(790), DOT, Num(0)>>),
      Month(2022, "MAY", <<Num(810), DOT, Num(5)>>),
      Month(2022, "JUN", <<Num(800), DOT, Num(0)>>),
      Month(2022, "JUN", <<Num(795), DOT, Num(0)>>),
      Month(2022, "APR", <<Word("nan")>>) }

DocsLatest(n) == {h \o b : h \in HeadersLatest, b \in [1..n -> RowsLatest]}

InitLatest ==
    /\ \E n1 \in 0..MaxRows :
          \E n2 \in 0..(MaxRows - n1) :
             \E d1 \in DocsLatest(n1), d2 \in DocsLatest(n2) :
                docs = (FileNames[1] :> d1) @@ (FileNames[2] :> d2)
    /\ Fresh

NextLatest == Consolidate \/ LoadLatestSeries

\* prepare.main, then forecast.main
SpecLatest == InitLatest /\ [][NextLatest]_vars

-----------------------------------------------------------------------------
(* One document read on its own: the loop body of consolidate_monthlies *)

\* Release date,
HRelEmpty == Line(<<Word("Release date")>>, <<>>)

\* Date,15 Jun 2023
HDateJun == Line(<<Word("Date")>>, <<Num(15), SP, Word("Jun"), SP, Num(2023)>>)

\* Vacancies (a line without a comma)
TitleLine == << <<Word("Vacancies")>> >>

DocLines ==
    { HRelSep, HRelBad, HRelEmpty, HUpdMay, HDateJun, HNotes, BlankLine,
      TitleLine,
      Line(<<Num(2022), SP, Word("Q2")>>, <<Num(123), DOT, Num(4)>>),
      Line(<<Num(2022)>>, <<Num(790), DOT, Num(0)>>),
      Month(2022, "JUN", <<Num(800), DOT, Num(0)>>),
      Month(2022, "jun", <<Num(795), DOT, Num(0)>>),
      Month(2022, "QTR", <<Num(1), DOT, Num(0)>>),
      Month(2022, "JUL", <<Num(810), DOT, Num(5), SP, Word("[p]")>>) }

InitDoc ==
    /\ \E n \in 0..MaxLines :
          \E d \in [1..n -> DocLines] :
             docs = (FileNames[1] :> d) @@ (FileNames[2] :> <<>>)
    /\ Fresh

\* meta, df = read_csv_with_header_metadata(p); vintage = parse_vintage_date(meta)
ReadDocument ==
    /\ pc = "start"
    /\ \E f \in Files :
          reading' =
              [file |-> f,
               metadata |-> read_csv_with_header_metadata(docs[f]).metadata,
               meta_lines |-> MetadataLines(docs[f], 0),
               data_start |-> ScanHeader(docs[f], 0, <<>>).data_start,
               df |-> read_csv_with_header_metadata(docs[f]).df,
               vintage |->
                   parse_vintage_date(
                       read_csv_with_header_metadata(docs[f]).metadata)]
    /\ pc' = "read"
    /\ UNCHANGED <<docs, panel, out_csv, df, rev, series>>

NextDoc == ReadDocument

SpecDoc == InitDoc /\ [][NextDoc]_vars

-----------------------------------------------------------------------------
(* Properties *)

Jun2022 == Date(2022, 6, 1)

Proj(r) ==
    [observation_date |-> r.observation_date,
     value |-> r.value,
     vintage_date |-> r.vintage_date,
     source_file |-> r.source_file]

RowsFrom(rows, f) == {i \in 1..Len(rows) : rows[i].source_file = f}

\* A well-formed monthly row: 'YYYY MON' label and a value that float() reads
\* (a decimal or a spelling of nan).
WellFormedMonthly(line) ==
    /\ Len(line) = 2
    /\ LET label == uq(line[1])
           value == uq(line[2])
       IN  /\ Len(label) = 3
           /\ Digits4(label[1])
           /\ label[2] = SP
           /\ label[3].k = "word"
           /\ label[3].s \in DOMAIN MONTH_MAP
           /\ \/ Len(value) = 1 /\ value[1].k = "num"
              \/ Len(value) = 3 /\ value[1].k = "num" /\ value[2] = DOT
                                /\ value[3].k = "num"
              \/ Len(value) = 1 /\ value[1].k = "word"
                                /\ value[1].s \in NanWords

WellFormedCount(doc) == Cardinality({i \in 1..Len(doc) : WellFormedMonthly(doc[i])})

\* The header of the document yields a vintage date.
Resolvable(doc) ==
    parse_vintage_date(read_csv_with_header_metadata(doc).metadata) # NoDate

\* The extractor finds at least one observation in the document.
HasObservations(doc) == read_csv_with_header_metadata(doc).df # <<>>

Ran == pc \in {"consolidated", "failed"}

\* C1: after consolidate_monthlies, every document with a resolvable vintage
\* date and N well-formed monthly rows has exactly N records in the Panel.
C1_NoLoss ==
    Ran => \A f \in Files :
              Resolvable(docs[f]) =>
                  Cardinality(RowsFrom(panel, f)) = WellFormedCount(docs[f])

\* C2: a repeated run of consolidate_monthlies over the same documents, the
\* files coming from glob in any order, writes and returns the identical Panel.
C2_Idempotent ==
    [][pc = "consolidated" /\ pc' = "consolidated"
          => panel' = panel /\ out_csv' = out_csv]_vars

\* Two records of different documents tie on (observation_date, vintage_date)
\* and differ in value.
C2_Witness ==
    /\ pc = "consolidated"
    /\ \E i, j \in 1..Len(panel) :
          /\ i < j
          /\ panel[i].observation_date = panel[j].observation_date
          /\ panel[i].vintage_date = panel[j].vintage_date
          /\ panel[i].source_file # panel[j].source_file
          /\ panel[i].value # panel[j].value

\* C3: the Panel never holds two records with the same
\* (observation_date, vintage_date, source_file).
C3_OnePerDocument ==
    pc = "consolidated" =>
        \A i, j \in 1..Len(panel) :
            i < j =>
                \/ panel[i].observation_date # panel[j].observation_date
                \/ panel[i].vintage_date # panel[j].vintage_date
                \/ panel[i].source_file # panel[j].source_file

\* C4: a document without a resolvable vintage date has no record in the
\* Panel, every record of the Panel has a vintage date, and consolidation
\* does not fail while some document has observations and a vintage date.
C4_UndatedDropped ==
    /\ pc = "consolidated" =>
          /\ \A i \in 1..Len(panel) : panel[i].vintage_date # NoDate
          /\ \A f \in Files : ~Resolvable(docs[f]) => RowsFrom(panel, f) = {}
    /\ pc = "failed" =>
          \A f \in Files : ~(Resolvable(docs[f]) /\ HasObservations(docs[f]))

\* An undated document with observations next to a valid one.
C4_Witness ==
    /\ pc = "consolidated"
    /\ panel # <<>>
    /\ \E f \in Files : ~Resolvable(docs[f]) /\ HasObservations(docs[f])

\* C5: when every document lacks observations or lacks a vintage date,
\* consolidate_monthlies raises and neither returns nor writes a Panel.
C5_NoEmptyPanel ==
    (\A f \in Files : ~HasObservations(docs[f]) \/ ~Resolvable(docs[f]))
        => pc # "consolidated" /\ ~out_csv.exists

\* C6: the Panel is sorted by observation_date, then by vintage_date.
C6_Sorted ==
    pc = "consolidated" =>
        \A i, j \in 1..Len(panel) :
            i < j =>
                /\ DateLeq(panel[i].observation_date, panel[j].observation_date)
                /\ panel[i].observation_date = panel[j].observation_date
                      => DateLeq(panel[i].vintage_date, panel[j].vintage_date)

\* The first file carries the later vintage of an observation month, and the
\* Panel spans two observation months.
C6_Witness ==
    /\ pc = "consolidated"
    /\ \E i, j \in 1..Len(panel) :
          /\ i < j
          /\ panel[i].observation_date = panel[j].observation_date
          /\ DateLess(panel[i].vintage_date, panel[j].vintage_date)
          /\ PathRank(panel[j].source_file) < PathRank(panel[i].source_file)
    /\ \E i, j \in 1..Len(panel) :
          panel[i].observation_date # panel[j].observation_date

\* The whole-month age of a record, from the calendar months of its dates.
AgeOf(r) ==
    12 * (r.vintage_date.y - r.observation_date.y)
        + (r.vintage_date.m - r.observation_date.m)

\* C7: first_value of every returned record is the value of a record of
\* minimum vintage_date among the records of the frame given to
\* add_revision_metrics that share its observation_date, dropped or not, and
\* rev_from_first is value minus first_value.
C7_FirstValue ==
    pc = "metrics" =>
        \A k \in 1..Len(rev) :
            /\ \E i \in 1..Len(df) :
                  /\ df[i].observation_date = rev[k].observation_date
                  /\ df[i].value = rev[k].first_value
                  /\ \A j \in 1..Len(df) :
                        df[j].observation_date = rev[k].observation_date
                            => DateLeq(df[i].vintage_date, df[j].vintage_date)
            /\ rev[k].rev_from_first.x = rev[k].value.x - rev[k].first_value.x

\* A retained record is revised against a first value that comes from a
\* record dropped for its negative age.
C7_Witness ==
    /\ pc = "metrics"
    /\ \E k \in 1..Len(rev) :
          /\ rev[k].first_value # rev[k].value
          /\ \E i \in 1..Len(df) :
                /\ df[i].observation_date = rev[k].observation_date
                /\ df[i].value = rev[k].first_value
                /\ AgeOf(df[i]) < 0

\* Scenario B: 2022 JUN at 800.0 in the vintage of 2022-07-01 and at 795.0
\* in the vintage of 2022-09-01, from two documents.
ScenarioB ==
    /\ Len(panel) = 2
    /\ panel[1].source_file # panel[2].source_file
    /\ panel[1].observation_date = Jun2022
    /\ panel[1].vintage_date = Date(2022, 7, 1)
    /\ panel[1].value = Flt(8000)
    /\ panel[2].observation_date = Jun2022
    /\ panel[2].vintage_date = Date(2022, 9, 1)
    /\ panel[2].value = Flt(7950)

ScenarioBRecord(age) ==
    /\ Len(rev) = 2
    /\ rev[2].vintage_date = Date(2022, 9, 1)
    /\ rev[2].first_value = Flt(8000)
    /\ rev[2].rev_from_first = Flt(-50)
    /\ rev[2].vintage_age_months = age

\* C8 as stated: in Scenario B the second record has first_value 800.0,
\* revision -5.0 and vintage age 2.
C8_ScenarioB_Age2 == pc = "metrics" /\ ScenarioB => ScenarioBRecord(2)

\* C8 as amended: in Scenario B the second record has first_value 800.0,
\* revision -5.0 and vintage age 3, September being three calendar months
\* after June.
C8_ScenarioB_Age3 == pc = "metrics" /\ ScenarioB => ScenarioBRecord(3)

C8_Witness == pc = "metrics" /\ ScenarioB

\* C9: add_revision_metrics retains exactly the records whose whole-month
\* vintage age is non-negative, in order, each with that age.
C9_NonNegativeAge ==
    pc = "metrics" =>
        /\ \A k \in 1..Len(rev) :
              rev[k].vintage_age_months >= 0
                  /\ rev[k].vintage_age_months = AgeOf(rev[k])
        /\ [k \in 1..Len(rev) |-> Proj(rev[k])]
              = SelectSeq(df, LAMBDA r : AgeOf(r) >= 0)

\* A record of age 0 is retained while a record of negative age is dropped.
C9_Witness ==
    /\ pc = "metrics"
    /\ \E k \in 1..Len(rev) : rev[k].vintage_age_months = 0
    /\ \E i \in 1..Len(df) : AgeOf(df[i]) < 0

\* C10: the records read back by load_panel from the written table are the
\* records of the Panel.
C10_RoundTrip ==
    pc \in {"loaded", "metrics"} =>
        {df[i] : i \in 1..Len(df)} = {panel[i] : i \in 1..Len(panel)}

PanelOrdinals == {MonthOrdinal(panel[i].observation_date) : i \in 1..Len(panel)}

PanelFirst == CHOOSE n \in PanelOrdinals : \A o \in PanelOrdinals : n <= o

PanelLast == CHOOSE n \in PanelOrdinals : \A o \in PanelOrdinals : n >= o

\* Entry k of the series is the value of a Panel record of its month that
\* carries the month's maximum vintage_date.
IsLatestOfPanel(k) ==
    \E i \in 1..Len(panel) :
        /\ panel[i].observation_date = series[k].observation_date
        /\ \A j \in 1..Len(panel) :
              panel[j].observation_date = panel[i].observation_date
                  => DateLeq(panel[j].vintage_date, panel[i].vintage_date)
        /\ ~panel[i].value.nan
        /\ ~series[k].nan
        /\ series[k].num = panel[i].value.x * series[k].den

InPanel(k) == PanelFirst + k - 1 \in PanelOrdinals

\* Entry k lies on the line between the nearest months of the Panel around it.
IsFilledBetween(k) ==
    \E a \in 1..(k - 1), b \in (k + 1)..Len(series) :
        /\ InPanel(a) /\ InPanel(b)
        /\ \A c \in (a + 1)..(b - 1) : ~InPanel(c)
        /\ ~series[k].nan
        /\ series[k].num * (b - a) * series[a].den * series[b].den
              = series[k].den * (series[a].num * series[b].den * (b - k)
                                   + series[b].num * series[a].den * (k - a))

LatestSeriesOfPanel ==
    /\ Len(series) = PanelLast - PanelFirst + 1
    /\ \A k \in 1..Len(series) :
          /\ MonthOrdinal(series[k].observation_date) = PanelFirst + k - 1
          /\ series[k].observation_date.d = 1
          /\ ~series[k].nan
          /\ IF InPanel(k) THEN IsLatestOfPanel(k) ELSE IsFilledBetween(k)

\* C11: for a non-empty Panel, load_latest_series returns one entry per month
\* from the first to the last observation_date of the Panel, the value of the
\* latest vintage for a month of the Panel, a filled value for every other
\* month, and no entry unfilled.
C11_LatestSeries == pc = "series" /\ panel # <<>> => LatestSeriesOfPanel

\* The same on a Panel none of whose values is NaN.
LatestSeriesOnNumbers ==
    pc = "series" /\ panel # <<>>
        /\ (\A i \in 1..Len(panel) : ~panel[i].value.nan)
        => LatestSeriesOfPanel

\* A Panel without NaN whose series fills a gap of two months.
LatestSeriesGap ==
    /\ pc = "series"
    /\ \A i \in 1..Len(panel) : ~panel[i].value.nan
    /\ \E k \in 1..Len(series) : series[k].den = 3

\* The candidate keys present in the metadata with a non-empty value.
UsableKeys(md) ==
    {c \in 1..Len(candidates) :
        candidates[c] \in DOMAIN md /\ md[candidates[c]] # <<>>}

FirstOf(S) == CHOOSE c \in S : \A e \in S : c <= e

\* The date the first matching format gives for val, NoDate when none matches.
FirstFormat(val) ==
    LET ok == {i \in 1..Len(fmts) : strptime(val, fmts[i]) # NoDate}
    IN  IF ok = {} THEN NoDate ELSE strptime(val, fmts[FirstOf(ok)])

\* The candidate keys whose value some format parses.
ParsableKeys(md) ==
    {c \in UsableKeys(md) : FirstFormat(md[candidates[c]]) # NoDate}

\* C12 as stated: the first key present with a non-empty value decides alone;
\* when no format parses its value the result is absent, whatever the keys
\* of lower priority hold.
C12_FirstKeyOnly ==
    pc = "read" =>
        reading.vintage =
            IF UsableKeys(reading.metadata) = {} THEN NoDate
            ELSE FirstFormat(
                    reading.metadata[
                        candidates[FirstOf(UsableKeys(reading.metadata))]])

\* C12 as amended: the keys are tried in priority order, a key that is
\* missing, empty or whose value no format parses is passed over, the first
\* key whose value parses gives the date by its first matching format, and the
\* result is absent only when no key parses.
C12_FirstParsableKey ==
    pc = "read" =>
        reading.vintage =
            IF ParsableKeys(reading.metadata) = {} THEN NoDate
            ELSE FirstFormat(
                    reading.metadata[
                        candidates[FirstOf(ParsableKeys(reading.metadata))]])

\* The first key with a non-empty value does not parse and a key of lower
\* priority gives the date.
C12_Witness ==
    /\ pc = "read"
    /\ UsableKeys(reading.metadata) # {}
    /\ FirstOf(UsableKeys(reading.metadata)) \notin ParsableKeys(reading.metadata)
    /\ reading.vintage # NoDate

\* The document that was read.
ReadDoc == docs[reading.file]

\* A line at which the header scan is to stop: blank, not two fields, a
\* period label in the first field, or an 'important notes' line.
StopLine(line) ==
    \/ IsBlank(line)
    \/ Len(line) # 2
    \/ ts_key(uq(line[1]))
    \/ IsImportantNotes(uq(line[1]))

StopLines(doc) == {i \in 1..Len(doc) : StopLine(doc[i])}

\* The number of lines before the data block when the scan stops at line i:
\* a blank line and a notes line are left out of the block, the others open it.
StartAfterStop(doc, i) ==
    IF IsBlank(doc[i]) \/ (Len(doc[i]) = 2 /\ ~ts_key(uq(doc[i][1])))
    THEN i ELSE i - 1

\* C13: the scan stops at the first stop line, the data block is the lines
\* from the resulting data start to the end, and no line recorded as a
\* Metadata entry lies in the data block, a document without any stop line
\* included.
C13_Partition ==
    pc = "read" =>
        /\ StopLines(ReadDoc) # {} =>
              reading.data_start
                  = StartAfterStop(ReadDoc, FirstOf(StopLines(ReadDoc)))
        /\ reading.df
              = Records(SubSeq(ReadDoc, reading.data_start + 1, Len(ReadDoc)))
        /\ \A i \in reading.meta_lines : i <= reading.data_start

\* The row filter as claimed: 'YYYY MON' with the abbreviation matched
\* case-insensitively, and a value that parses as a number.
ClaimedRow(line) ==
    /\ Len(line) = 2
    /\ LET label == uq(line[1])
       IN  /\ Len(label) = 3
           /\ Digits4(label[1])
           /\ label[2] = SP
           /\ label[3].k = "word"
           /\ upper(label[3].s) \in DOMAIN MONTH_MAP
    /\ IsFloat(uq(line[2]))

ClaimedObservation(line) ==
    [observation_date |->
         Date(uq(line[1])[1].n, MONTH_MAP[upper(uq(line[1])[3].s)], 1),
     value |-> float(uq(line[2]))]

ClaimedObservations(block) ==
    LET kept == SelectSeq(block, ClaimedRow)
    IN  [i \in 1..Len(kept) |-> ClaimedObservation(kept[i])]

\* C14: the observations of a document are those of the rows of its data
\* block whose label is a four-digit year, whitespace and a month abbreviation
\* in any case and whose value parses as a number, every other row being
\* skipped.
C14_RowFilter ==
    pc = "read" =>
        reading.df
            = ClaimedObservations(
                  SubSeq(ReadDoc, reading.data_start + 1, Len(ReadDoc)))

====
